---- MODULE Spec2Model ----
(***************************************************************************)
(* Model of dashboard_tiles/app.py: the tile store (tiles.json), the icon  *)
(* resolver fetch_icon_for_url and the /add, /remove and /edit handlers.   *)
(*                                                                         *)
(* Python strings are modelled as sequences of one-character strings, so   *)
(* that strip(), lower(), startswith(), `in` and split() are computed and  *)
(* not assumed.                                                            *)
(***************************************************************************)
EXTENDS Integers, Sequences, FiniteSets, TLC

VARIABLES
    data_file,  \* tiles.json: [exists, tiles]
    call,       \* the operation last invoked and its inputs
    out,        \* what that operation returned and did
    pc,         \* SpecRace: each worker's position in its request handler
    req,        \* SpecRace: each worker's request
    loc,        \* SpecRace: each worker's local `tiles` after load_tiles()
    hist        \* SpecRace: history: overlap flag, acknowledged adds, count

vars == <<data_file, call, out, pc, req, loc, hist>>

----------------------------------------------------------------------------
(* Python str operations *)

\* Python None (a value no string equals)
None == <<"<None>">>

\* bool(v) of an optional string
Truthy(v) == v # None /\ v # <<>>

\* v or d
OrElse(v, d) == IF Truthy(v) THEN v ELSE d

\* characters str.strip() removes
WS == {" ", "\t", "\n", "\r"}

UPPER == <<"A","B","C","D","E","F","G","H","I","J","K","L","M",
           "N","O","P","Q","R","S","T","U","V","W","X","Y","Z">>

LOWER == <<"a","b","c","d","e","f","g","h","i","j","k","l","m",
           "n","o","p","q","r","s","t","u","v","w","x","y","z">>

DIGITS == <<"0","1","2","3","4","5","6","7","8","9">>

Range(s) == {s[i] : i \in DOMAIN s}

LowerChar(c) ==
    IF \E i \in DOMAIN UPPER : UPPER[i] = c
    THEN LOWER[CHOOSE i \in DOMAIN UPPER : UPPER[i] = c]
    ELSE c

\* s.lower()
lower(s) == IF s = <<>> THEN <<>> ELSE [i \in 1..Len(s) |-> LowerChar(s[i])]

RECURSIVE LStrip(_)
LStrip(s) == IF s # <<>> /\ Head(s) \in WS THEN LStrip(Tail(s)) ELSE s

RECURSIVE RStrip(_)
RStrip(s) ==
    IF s # <<>> /\ s[Len(s)] \in WS THEN RStrip(SubSeq(s, 1, Len(s) - 1)) ELSE s

\* s.strip()
strip(s) == RStrip(LStrip(s))

\* s.startswith(p)
startswith(s, p) == Len(p) <= Len(s) /\ SubSeq(s, 1, Len(p)) = p

\* sub in s
Contains(sub, s) ==
    \E i \in 0..(Len(s) - Len(sub)) : SubSeq(s, i + 1, i + Len(sub)) = sub

\* s.find(c) for a character c, 1-based; 0 when c does not occur
find(s, c) ==
    IF \E i \in 1..Len(s) : s[i] = c
    THEN CHOOSE i \in 1..Len(s) : s[i] = c /\ \A j \in 1..(i - 1) : s[j] # c
    ELSE 0

\* s.rfind(c), 1-based; 0 when c does not occur
rfind(s, c) ==
    IF \E i \in 1..Len(s) : s[i] = c
    THEN CHOOSE i \in 1..Len(s) : s[i] = c /\ \A j \in (i + 1)..Len(s) : s[j] # c
    ELSE 0

\* s.split(c)[-1]
SplitLast(s, c) == SubSeq(s, rfind(s, c) + 1, Len(s))

\* s.split(c)[0]
SplitFirst(s, c) == IF find(s, c) = 0 THEN s ELSE SubSeq(s, 1, find(s, c) - 1)

----------------------------------------------------------------------------
(* urllib.parse.urlparse, as far as the resolver reads its result          *)
(* (scheme, netloc, ValueError), following CPython 3.11 urlsplit.  The URLs *)
(* given hold no whitespace or control characters, which urlsplit would    *)
(* remove first; /add strips its url before the resolver sees it.          *)

SchemeChars == Range(UPPER) \cup Range(LOWER) \cup Range(DIGITS) \cup {"+", "-", "."}

IsAlpha(c) == c \in Range(UPPER) \cup Range(LOWER)

\* first position >= from of one of "/?#", or Len(s) + 1
NetlocEnd(s, from) ==
    IF \E i \in from..Len(s) : s[i] \in {"/", "?", "#"}
    THEN CHOOSE i \in from..Len(s) :
            s[i] \in {"/", "?", "#"} /\ \A j \in from..(i - 1) : s[j] \notin {"/", "?", "#"}
    ELSE Len(s) + 1

urlparse(url) ==
    LET i == find(url, ":")
        hasScheme == /\ i > 1
                     /\ IsAlpha(url[1])
                     /\ \A k \in 1..(i - 1) : url[k] \in SchemeChars
        scheme == IF hasScheme THEN lower(SubSeq(url, 1, i - 1)) ELSE <<>>
        rest == IF hasScheme THEN SubSeq(url, i + 1, Len(url)) ELSE url
        netloc == IF startswith(rest, <<"/","/">>)
                  THEN SubSeq(rest, 3, NetlocEnd(rest, 3) - 1)
                  ELSE <<>>
        open == "[" \in Range(netloc)
        close == "]" \in Range(netloc)
    IN  [exc |-> (open /\ ~close) \/ (close /\ ~open),
         scheme |-> scheme,
         netloc |-> netloc]

DEFAULT_ICON == <<"/","s","t","a","t","i","c","/","i","c","o","n","s","/","d","e","f","a","u","l","t",".","p","n","g">>

\* fetch_icon_for_url, "Normalize url"
Normalize(site_url) ==
    LET p1 == urlparse(site_url)
        url2 == IF p1.scheme = <<>> THEN <<"h","t","t","p",":","/","/">> \o site_url ELSE site_url
        parsed == IF p1.scheme = <<>> THEN urlparse(url2) ELSE p1
    IN  IF p1.exc \/ parsed.exc
        THEN [exc |-> TRUE, site_url |-> site_url, scheme |-> <<>>,
              netloc |-> <<>>, domain |-> <<>>]
        ELSE [exc |-> FALSE, site_url |-> url2, scheme |-> parsed.scheme,
              netloc |-> parsed.netloc,
              domain |-> lower(SplitFirst(SplitLast(parsed.netloc, "@"), ":"))]

----------------------------------------------------------------------------
(* The page-link step: choosing the link tag (BeautifulSoup, html.parser). *)
(* A page is the sequence of its <link> tags in document order; a tag is   *)
(* [rel, href], each the attribute's text or None when absent.             *)

\* str.split(): the whitespace-separated words of s
RECURSIVE Words(_)
Words(s) ==
    LET t == LStrip(s)
        n == IF \E i \in 1..Len(t) : t[i] \in WS
             THEN (CHOOSE i \in 1..Len(t) :
                      t[i] \in WS /\ \A j \in 1..(i - 1) : t[j] \notin WS) - 1
             ELSE Len(t)
    IN  IF t = <<>> THEN <<>>
        ELSE <<SubSeq(t, 1, n)>> \o Words(SubSeq(t, n + 1, Len(t)))

\* " ".join(ws)
RECURSIVE Join(_)
Join(ws) ==
    IF ws = <<>> THEN <<>>
    ELSE IF Len(ws) = 1 THEN ws[1]
    ELSE ws[1] \o <<" ">> \o Join(Tail(ws))

\* the filter of line 63, lambda v: v and rel in v.lower(), on one string
RelFilter(rel, v) == Truthy(v) /\ Contains(rel, lower(v))

\* how soup.find applies that filter to the multi-valued attribute rel:
\* to each of its words, then to the words joined by one space
RelMatches(rel, v) ==
    IF v = None THEN FALSE
    ELSE \/ \E k \in DOMAIN Words(v) : RelFilter(rel, Words(v)[k])
         \/ RelFilter(rel, Join(Words(v)))

\* soup.find("link", rel=...): the first matching tag in document order, 0 if none
SoupFind(page, rel) ==
    IF \E i \in DOMAIN page : RelMatches(rel, page[i].rel)
    THEN CHOOSE i \in DOMAIN page :
            /\ RelMatches(rel, page[i].rel)
            /\ \A j \in 1..(i - 1) : ~RelMatches(rel, page[j].rel)
    ELSE 0

RelPriority == <<<<"i","c","o","n">>, <<"s","h","o","r","t","c","u","t"," ","i","c","o","n">>, <<"a","p","p","l","e","-","t","o","u","c","h","-","i","c","o","n">>, <<"m","a","s","k","-","i","c","o","n">>>>

\* lines 61-65: the loop over the relations; k is the next relation to try.
\* The result is the chosen tag's position in the page, 0 when icon_href is None.
RECURSIVE ChooseFrom(_, _)
ChooseFrom(page, k) ==
    IF k > Len(RelPriority) THEN 0
    ELSE LET tag == SoupFind(page, RelPriority[k])
         IN  IF tag # 0 /\ Truthy(page[tag].href) THEN tag
             ELSE ChooseFrom(page, k + 1)

ChooseIconTag(page) == ChooseFrom(page, 1)

----------------------------------------------------------------------------
(* fetch_icon_for_url.  The network and the disk are the environment: env  *)
(* gives the response of each source and whether the write of its body     *)
(* succeeds.  A response is [kind |-> "exc"] (exception or timeout) or     *)
(* [kind |-> "resp", ok, content]; a page's content is its link tags.      *)
(* A step ends "return" (with ret), "fall" (to the next step) or "raise".  *)

ExcResp == [kind |-> "exc"]

\* requests.get(url): raises when the URL's scheme is not http(s),
\* otherwise the network decides
Get(scheme, resp) ==
    IF scheme \in {<<"h","t","t","p">>, <<"h","t","t","p","s">>} THEN resp ELSE ExcResp

\* _save_png: decode and resize to a 128x128 PNG, else write the raw bytes;
\* raises when that write fails too
save_png(content, filename, disk) ==
    IF disk = "err"
    THEN [st |-> "raise", ret |-> None, log |-> <<>>, wrote |-> <<>>]
    ELSE [st |-> "return", ret |-> <<"/","s","t","a","t","i","c","/","i","c","o","n","s","/">> \o filename, log |-> <<>>,
          wrote |-> <<[name |-> filename,
                       as |-> IF content = "img" THEN "png128" ELSE "raw"]>>]

\* r = requests.get(...); if r.ok and r.content: return _save_png(...)
FetchAndSave(src, scheme, f, filename) ==
    LET r == Get(scheme, f.resp)
    IN  IF r.kind = "exc"
        THEN [st |-> "raise", ret |-> None, wrote |-> <<>>,
              log |-> <<[src |-> src, got |-> "exc"]>>]
        ELSE IF r.ok /\ r.content # ""
        THEN [save_png(r.content, filename, f.disk)
                 EXCEPT !.log = <<[src |-> src, got |-> "body"]>>]
        ELSE [st |-> "fall", ret |-> None, wrote |-> <<>>,
              log |-> <<[src |-> src, got |-> IF r.ok THEN "empty" ELSE "notok"]>>]

\* a step whose exceptions nothing catches
NoExcept(step) == step

\* try: ... except Exception: pass  (continue, in the providers' loop)
TryExcept(step) ==
    IF step.st = "raise" THEN [step EXCEPT !.st = "fall"] ELSE step

\* 1) <link rel=icon ...>
PageStep(n, env, filename) ==
    TryExcept(
        LET pg == Get(n.scheme, env.page)
        IN  IF pg.kind = "exc"
            THEN [st |-> "raise", ret |-> None, wrote |-> <<>>,
                  log |-> <<[src |-> "page", got |-> "exc"]>>]
            ELSE IF ChooseIconTag(pg.content) = 0
            THEN [st |-> "fall", ret |-> None, wrote |-> <<>>,
                  log |-> <<[src |-> "page", got |-> "html"]>>]
            ELSE LET s == FetchAndSave("link", <<"h","t","t","p">>, env.link, filename)
                 IN  [s EXCEPT !.log = <<[src |-> "page", got |-> "html"]>> \o s.log])

\* 2) /favicon.ico
FaviconStep(n, env, filename) ==
    TryExcept(FetchAndSave("favicon", n.scheme, env.favicon, filename))

\* the providers' list with its two entries exchanged
ProvidersSwapped == <<"providerB", "providerA">>

\* 3) Providers, in the order of the list
Providers == <<"providerA", "providerB">>

ProviderStep(k, env, filename) ==
    TryExcept(FetchAndSave(Providers[k], <<"h","t","t","p","s">>, env[Providers[k]], filename))

\* the steps in program order; the first that returns or raises ends the call
RECURSIVE RunSteps(_, _, _, _, _)
RunSteps(k, n, env, log, wrote) ==
    IF k > 2 + Len(Providers)
    THEN [ret |-> DEFAULT_ICON, raised |-> FALSE, log |-> log, wrote |-> wrote]
    ELSE LET filename == n.domain \o <<".","p","n","g">>
             s == IF k = 1 THEN PageStep(n, env, filename)
                  ELSE IF k = 2 THEN FaviconStep(n, env, filename)
                  ELSE ProviderStep(k - 2, env, filename)
         IN  IF s.st = "return"
             THEN [ret |-> s.ret, raised |-> FALSE,
                   log |-> log \o s.log, wrote |-> wrote \o s.wrote]
             ELSE IF s.st = "raise"
             THEN [ret |-> None, raised |-> TRUE,
                   log |-> log \o s.log, wrote |-> wrote \o s.wrote]
             ELSE RunSteps(k + 1, n, env, log \o s.log, wrote \o s.wrote)

fetch_icon_for_url(site_url, env) ==
    LET n == Normalize(site_url)
    IN  IF n.exc
        THEN [ret |-> DEFAULT_ICON, raised |-> FALSE, log |-> <<>>, wrote |-> <<>>]
        ELSE RunSteps(1, n, env, <<>>, <<>>)

----------------------------------------------------------------------------
(* The tile store and the handlers /add, /remove and /edit.  A request's   *)
(* body is a record of optional strings; a handler's result is the file it *)
(* leaves, its response, the fetches it made and the icon files it wrote.  *)

\* load_tiles: a missing file is the empty list
load_tiles(f) == IF f.exists THEN f.tiles ELSE <<>>

\* save_tiles: the whole list replaces the file's content
save_tiles(tiles) == [exists |-> TRUE, tiles |-> tiles]

\* str(n) of a natural number
RECURSIVE IntToStr(_)
IntToStr(n) ==
    IF n < 10 THEN <<DIGITS[n + 1]>>
    ELSE IntToStr(n \div 10) \o <<DIGITS[(n % 10) + 1]>>

\* f"custom_{int(time.time())}.png"
CustomName(now) == <<"c","u","s","t","o","m","_">> \o IntToStr(now) \o <<".","p","n","g">>

ICON_PREFIX == <<"/","s","t","a","t","i","c","/","i","c","o","n","s","/">>

\* (data.get("icon") or data.get("icon_url") or "").strip()
IconArg(data) == strip(OrElse(data.icon, OrElse(data.icon_url, <<>>)))

\* requests.get of a URL given as parsed: an unparsable URL raises as well
GetUrl(p, resp) == IF p.exc THEN ExcResp ELSE Get(p.scheme, resp)

\* what a fetch got, as the log records it
GotOf(r) ==
    IF r.kind = "exc" THEN "exc"
    ELSE IF ~r.ok THEN "notok"
    ELSE IF r.content = "" THEN "empty" ELSE "body"

\* /add, a supplied icon URL: r is the response to requests.get(icon_url),
\* auto the result of fetch_icon_for_url(url)
AddCustom(r, disk, now, auto) ==
    IF r.kind = "resp" /\ r.ok /\ disk = "ok"
    THEN [ret |-> save_png(r.content, CustomName(now), disk).ret,
          raised |-> FALSE,
          log |-> <<[src |-> "custom", got |-> GotOf(r)]>>,
          wrote |-> save_png(r.content, CustomName(now), disk).wrote]
    ELSE [auto EXCEPT !.log = <<[src |-> "custom", got |-> GotOf(r)]>> \o auto.log]

\* /add, the choice of the icon; auto is fetch_icon_for_url(url)
AddIcon(icon_url, env, now, auto) ==
    IF startswith(icon_url, ICON_PREFIX)
    THEN [ret |-> icon_url, raised |-> FALSE, log |-> <<>>, wrote |-> <<>>]
    ELSE IF icon_url # <<>>
    THEN AddCustom(GetUrl(urlparse(icon_url), env.custom.resp),
                   env.custom.disk, now, auto)
    ELSE auto

\* tiles = [...] in place of tiles.append(...)
ReplaceTiles(tiles, t) == <<t>>

\* tiles.insert(0, ...) in place of tiles.append(...)
PrependTile(tiles, t) == <<t>> \o tiles

\* tiles.append({"label": label, "url": url, "icon": icon})
AppendTile(tiles, t) == Append(tiles, t)

\* a check that rejects only when both fields are blank
RejectedBoth(label, url) == label = <<>> /\ url = <<>>

\* if not label or not url
Rejected(label, url) == label = <<>> \/ url = <<>>

\* /add from the label, url and icon it computed
AddTile(label, url, icon, f) ==
    IF Rejected(label, url)
    THEN [file |-> f, success |-> FALSE, status |-> 400,
          log |-> <<>>, wrote |-> <<>>]
    ELSE IF icon.raised
    THEN [file |-> f, success |-> FALSE, status |-> 500,
          log |-> icon.log, wrote |-> icon.wrote]
    ELSE [file |-> save_tiles(AppendTile(load_tiles(f),
                      [label |-> label, url |-> url, icon |-> icon.ret])),
          success |-> TRUE, status |-> 200,
          log |-> icon.log, wrote |-> icon.wrote]

add(data, f, env, now) ==
    AddTile(strip(OrElse(data.label, <<>>)),
            strip(OrElse(data.url, <<>>)),
            AddIcon(IconArg(data), env, now,
                    fetch_icon_for_url(strip(OrElse(data.url, <<>>)), env)),
            f)

\* the comprehension with == in place of !=
Only(tiles, url) == SelectSeq(tiles, LAMBDA t : t.url = url)

\* [t for t in tiles if t.get("url") != url]
Without(tiles, url) == SelectSeq(tiles, LAMBDA t : t.url # url)

remove(data, f) ==
    LET url == strip(OrElse(data.url, <<>>))
    IN  [file |-> save_tiles(Without(load_tiles(f), url)),
         success |-> TRUE, status |-> 200, log |-> <<>>, wrote |-> <<>>]

\* a loop without its break: the last tile of that url
LastMatch(tiles, url) ==
    LET hit == {i \in DOMAIN tiles : tiles[i].url = url}
    IN  IF hit = {} THEN 0 ELSE CHOOSE i \in hit : \A j \in hit : j <= i

\* for t in tiles: if t.get("url") == original_url: ...; break
\* the position of the tile the loop body runs on, 0 if none
FirstMatch(tiles, url) ==
    LET hit == {i \in DOMAIN tiles : tiles[i].url = url}
    IN  IF hit = {} THEN 0 ELSE CHOOSE i \in hit : \A j \in hit : i <= j

\* /edit, a supplied icon URL: r is the response to requests.get(new_icon)
EditCustom(old, r, disk, now) ==
    IF r.kind = "resp" /\ r.ok /\ r.content # "" /\ disk = "ok"
    THEN [ret |-> save_png(r.content, CustomName(now), disk).ret,
          log |-> <<[src |-> "custom", got |-> GotOf(r)]>>,
          wrote |-> save_png(r.content, CustomName(now), disk).wrote]
    ELSE [ret |-> old, log |-> <<[src |-> "custom", got |-> GotOf(r)]>>,
          wrote |-> <<>>]

\* /edit, the new icon: [ret, log, wrote]; ret is the tile's icon afterwards
EditIcon(old, new_icon, env, now) ==
    IF new_icon = <<>>
    THEN [ret |-> old, log |-> <<>>, wrote |-> <<>>]
    ELSE IF startswith(new_icon, ICON_PREFIX)
    THEN [ret |-> new_icon, log |-> <<>>, wrote |-> <<>>]
    ELSE EditCustom(old, GetUrl(urlparse(new_icon), env.custom.resp),
                    env.custom.disk, now)

\* /edit of the tile at position i of the loaded list (0: no tile matched);
\* icon is EditIcon for that tile
EditTile(data, tiles, i, icon) ==
    IF i = 0
    THEN [file |-> save_tiles(tiles), success |-> TRUE, status |-> 200,
          log |-> <<>>, wrote |-> <<>>]
    ELSE [file |-> save_tiles([tiles EXCEPT ![i] =
                      [label |-> strip(OrElse(data.label, tiles[i].label)),
                       url |-> strip(OrElse(data.url, tiles[i].url)),
                       icon |-> icon.ret]]),
          success |-> TRUE, status |-> 200,
          log |-> icon.log, wrote |-> icon.wrote]

\* the icon step of /edit on the tile at position i
EditIconAt(data, tiles, i, env, now) ==
    EditIcon(tiles[i].icon, IconArg(data), env, now)

EditAt(data, tiles, i, env, now) ==
    EditTile(data, tiles, i, EditIconAt(data, tiles, i, env, now))

edit(data, f, env, now) ==
    EditAt(data, load_tiles(f),
           FirstMatch(load_tiles(f), strip(OrElse(data.original_url, <<>>))),
           env, now)

----------------------------------------------------------------------------
(* Inputs of the specifications *)

NoCall == [op |-> "none"]

NoOut == [op |-> "none"]

NoFile == [exists |-> FALSE, tiles |-> <<>>]

SchemeParts == {<<>>, <<"h","t","t","p",":","/","/">>, <<"H","T","T","P","S",":","/","/">>}

UserParts == {<<>>, <<"u",":","p","$">>}

NamedHosts == {<<"e","x","a","m","p","l","e",".","c","o","m">>, <<"l","o","c","a","l","h","o","s","t">>, <<"1","9","2",".","1","6","8",".","1",".","1","0">>, <<"N","A","S",".","l","o","c","a","l">>}

HostParts == NamedHosts \cup {<<"[">>}

PortParts == {<<>>, <<":","8","0","8","0">>}

PathParts == {<<>>, <<"/","x">>}

UrlInputs ==
    {[op |-> "input", scheme |-> s, user |-> u, host |-> h, port |-> p, path |-> q,
      url |-> s \o u \o h \o p \o q] :
        s \in SchemeParts, u \in UserParts, h \in HostParts,
        p \in PortParts, q \in PathParts}

----------------------------------------------------------------------------
(* SpecUrl: the normalisation of fetch_icon_for_url on every input *)

InitUrl ==
    /\ call \in UrlInputs
    /\ out = NoOut
    /\ data_file = NoFile
    /\ pc = <<>> /\ req = <<>> /\ loc = <<>> /\ hist = <<>>

NormalizeCall ==
    /\ call.op = "input"
    /\ call' = [call EXCEPT !.op = "normalize"]
    /\ out' = Normalize(call.url)
    /\ UNCHANGED <<data_file, pc, req, loc, hist>>

NextUrl == NormalizeCall

SpecUrl == InitUrl /\ [][NextUrl]_vars

\* C4: an input without a scheme that names a host is fetched as http://<input>
\* and its cache key is the lower-cased host, credentials and port stripped
C4_SchemelessIsHttp ==
    (call.op = "normalize" /\ call.scheme = <<>> /\ call.user = <<>>
        /\ call.host \in NamedHosts)
    => (/\ ~out.exc
        /\ out.site_url = <<"h","t","t","p",":","/","/">> \o call.url
        /\ out.domain = lower(call.host))

----------------------------------------------------------------------------
(* SpecPage: the choice of the link tag on every page of up to MaxTags tags *)

MaxTags == 2

Rels == {None, <<"i","c","o","n">>, <<"I","C","O","N">>, <<"s","h","o","r","t","c","u","t"," ","i","c","o","n">>, <<"a","p","p","l","e","-","t","o","u","c","h","-","i","c","o","n">>,
         <<"m","a","s","k","-","i","c","o","n">>, <<"s","t","y","l","e","s","h","e","e","t">>}

Hrefs == {None, <<"f">>}

Tags == [rel : Rels, href : Hrefs]

Pages == UNION {[1..n -> Tags] : n \in 0..MaxTags}

InitPage ==
    /\ call \in [op : {"page"}, page : Pages]
    /\ out = NoOut
    /\ data_file = NoFile
    /\ pc = <<>> /\ req = <<>> /\ loc = <<>> /\ hist = <<>>

ChooseCall ==
    /\ call.op = "page"
    /\ call' = [call EXCEPT !.op = "choose"]
    /\ out' = [tag |-> ChooseIconTag(call.page)]
    /\ UNCHANGED <<data_file, pc, req, loc, hist>>

NextPage == ChooseCall

SpecPage == InitPage /\ [][NextPage]_vars

\* the relation a tag declares, and its place in the priority order (0: none)
RelOf(tag) == IF tag.rel = None THEN <<>> ELSE lower(Join(Words(tag.rel)))

Rank(tag) ==
    IF \E k \in DOMAIN RelPriority : RelPriority[k] = RelOf(tag)
    THEN CHOOSE k \in DOMAIN RelPriority : RelPriority[k] = RelOf(tag)
    ELSE 0

Candidates(page) == {i \in DOMAIN page : Rank(page[i]) # 0 /\ Truthy(page[i].href)}

\* C3: on a page whose link tags all have an href, the tag chosen has the
\* best relation (icon > shortcut icon > apple-touch-icon > mask-icon) of the
\* page, whatever the order of the tags in the document; no tag is chosen
\* only when no tag has one of these relations
C3_RelationPriority ==
    (call.op = "choose" /\ \A i \in DOMAIN call.page : Truthy(call.page[i].href)) =>
        IF Candidates(call.page) = {} THEN out.tag = 0
        ELSE /\ out.tag \in Candidates(call.page)
             /\ \A j \in Candidates(call.page) :
                    Rank(call.page[out.tag]) <= Rank(call.page[j])

----------------------------------------------------------------------------
(* SpecResolver: fetch_icon_for_url on every outcome of its fetches *)

Body(content) == [kind |-> "resp", ok |-> TRUE, content |-> content]

\* the outcome of fetching an icon: the response, and whether its write succeeds
FetchOutcomes ==
    {[resp |-> ExcResp, disk |-> "ok"],
     [resp |-> [kind |-> "resp", ok |-> FALSE, content |-> "junk"], disk |-> "ok"],
     [resp |-> Body(""), disk |-> "ok"],
     [resp |-> Body("img"), disk |-> "ok"],
     [resp |-> Body("junk"), disk |-> "ok"],
     [resp |-> Body("img"), disk |-> "err"]}

\* the outcome of fetching the page: the status is not looked at
PageOutcomes ==
    {ExcResp,
     Body(<<>>),
     Body(<<[rel |-> <<"i","c","o","n">>, href |-> <<"f">>]>>),
     [kind |-> "resp", ok |-> FALSE,
      content |-> <<[rel |-> <<"s","t","y","l","e","s","h","e","e","t">>, href |-> <<"f">>],
                    [rel |-> <<"a","p","p","l","e","-","t","o","u","c","h","-","i","c","o","n">>, href |-> <<"f">>]>>]}

Envs == [page : PageOutcomes, link : FetchOutcomes, favicon : FetchOutcomes,
         providerA : FetchOutcomes, providerB : FetchOutcomes]

ResolverUrls == {<<"e","x","a","m","p","l","e",".","c","o","m">>, <<"l","o","c","a","l","h","o","s","t",":","8","0","8","0">>, <<"h","t","t","p",":","/","/","[">>,
                 <<"H","T","T","P","S",":","/","/","u",":","p","@","N","A","S",".","l","o","c","a","l",":","8","0","8","0","/","x">>}

InitResolver ==
    /\ call \in [op : {"input"}, url : ResolverUrls, env : Envs]
    /\ out = NoOut
    /\ data_file = NoFile
    /\ pc = <<>> /\ req = <<>> /\ loc = <<>> /\ hist = <<>>

ResolveCall ==
    /\ call.op = "input"
    /\ call' = [call EXCEPT !.op = "fetch_icon_for_url"]
    /\ out' = fetch_icon_for_url(call.url, call.env)
    /\ UNCHANGED <<data_file, pc, req, loc, hist>>

NextResolver == ResolveCall

SpecResolver == InitResolver /\ [][NextResolver]_vars

\* a fetch of the call that got an OK non-empty body which was then written
Materialized(e) == e.got = "body" /\ call.env[e.src].disk = "ok"

\* C1: the call never raises and returns an icon path; when no fetch it made
\* got an OK non-empty body that was materialized, the path is DEFAULT_ICON
C1_NeverRaises ==
    call.op = "fetch_icon_for_url" =>
        /\ ~out.raised
        /\ out.ret # None
        /\ startswith(out.ret, <<"/","s","t","a","t","i","c","/","i","c","o","n","s","/">>)
        /\ (\A i \in DOMAIN out.log : ~Materialized(out.log[i]))
              => out.ret = DEFAULT_ICON

\* C1's case: all five fetches were made, among them one that raised and one
\* whose body could not be written, and the default icon came back
C1_Witness ==
    /\ call.op = "fetch_icon_for_url"
    /\ Len(out.log) = 5
    /\ \E i \in DOMAIN out.log : out.log[i].got = "exc"
    /\ \E i \in DOMAIN out.log :
          out.log[i].got = "body" /\ call.env[out.log[i].src].disk = "err"
    /\ out.ret = DEFAULT_ICON

SourceOrder == <<"page", "link", "favicon", "providerA", "providerB">>

Pos(src) == CHOOSE k \in DOMAIN SourceOrder : SourceOrder[k] = src

\* the step a source belongs to: page and link are the page-link step
StepOf(src) == IF src = "page" THEN 1 ELSE Pos(src) - 1

\* the fetches were made in the fixed order, each at most once
InOrder(log) ==
    \A i, j \in DOMAIN log : i < j => Pos(log[i].src) < Pos(log[j].src)

\* a step was attempted only after every earlier step was attempted (and,
\* the call having gone on, had failed)
AfterEarlier(log) ==
    \A j \in DOMAIN log : \A k \in 1..(StepOf(log[j].src) - 1) :
        \E i \in 1..(j - 1) : StepOf(log[i].src) = k

IconPathOf(url) == <<"/","s","t","a","t","i","c","/","i","c","o","n","s","/">> \o Normalize(url).domain \o <<".","p","n","g">>

\* C2 as stated: sources in order, each once, and the first OK non-empty body
\* ends the call with /static/icons/<domain>.png, no later source contacted
C2_FirstBodyEndsCall ==
    call.op = "fetch_icon_for_url" =>
        /\ InOrder(out.log)
        /\ AfterEarlier(out.log)
        /\ \A i \in DOMAIN out.log :
              out.log[i].got = "body"
                 => i = Len(out.log) /\ out.ret = IconPathOf(call.url)

\* C2 amended: sources in order, each once, and the first OK non-empty body
\* that is materialized ends the call with /static/icons/<domain>.png, no
\* later source contacted; any other outcome of a step, a failed write of its
\* body included, is a failure of that step, and only the last source's
\* failure ends the call, with DEFAULT_ICON
C2_FirstMaterializedEndsCall ==
    call.op = "fetch_icon_for_url" =>
        /\ InOrder(out.log)
        /\ AfterEarlier(out.log)
        /\ \A i \in DOMAIN out.log :
              IF Materialized(out.log[i])
              THEN i = Len(out.log) /\ out.ret = IconPathOf(call.url)
              ELSE i = Len(out.log) =>
                      /\ out.ret = DEFAULT_ICON
                      /\ out.log[i].src = "providerB"

\* C2's case: the page-link step and /favicon.ico failed, provider A's body was
\* written and returned, provider B was not contacted
C2_Witness ==
    /\ call.op = "fetch_icon_for_url"
    /\ [i \in DOMAIN out.log |-> out.log[i].src]
          = <<"page", "link", "favicon", "providerA">>
    /\ Materialized(out.log[4])
    /\ out.ret = IconPathOf(call.url)

----------------------------------------------------------------------------
(* Spec: the requests /add, /remove and /edit served one at a time, from   *)
(* the state without tiles.json, the list kept to MaxTiles tiles.          *)

MaxTiles == 2

Fail == [resp |-> ExcResp, disk |-> "ok"]

Found == [resp |-> Body("img"), disk |-> "ok"]

AllFail == [custom |-> Fail, page |-> ExcResp, link |-> Fail, favicon |-> Fail,
            providerA |-> Fail, providerB |-> Fail]

\* what the handlers' fetches meet: nothing answers, or only the supplied
\* icon URL does
HandlerEnvs == {AllFail, [AllFail EXCEPT !.custom = Found]}

\* int(time.time())
Times == {12}

LabelArgs == {None, <<" ">>, <<"a">>, <<" ","b"," ">>}

UrlArgs == {None, <<" ">>, <<"u">>, <<" ","v"," ">>}

LocalIcon == <<"/","s","t","a","t","i","c","/","i","c","o","n","s","/","x",".","p","n","g">>

\* (icon, icon_url) of a request
IconArgs == {<<None, None>>, <<LocalIcon, None>>, <<LocalIcon \o <<" ">>, None>>,
             <<<<>>, LocalIcon>>, <<<<"h","t","t","p",":","/","/","i">>, None>>}

AddData ==
    {[label |-> l, url |-> u, icon |-> None, icon_url |-> None] :
        l \in LabelArgs, u \in UrlArgs}
    \cup {[label |-> l, url |-> <<" ","v"," ">>, icon |-> i[1], icon_url |-> i[2]] :
        l \in {<<" ">>, <<"a">>}, i \in IconArgs}

RemoveData == [url : UrlArgs]

EditData ==
    {[original_url |-> o, label |-> l, url |-> u, icon |-> None, icon_url |-> None] :
        o \in {<<"u">>, <<" ","v"," ">>}, l \in {None, <<" ">>, <<" ","b"," ">>}, u \in {None, <<" ">>, <<"u">>}}
    \cup {[original_url |-> <<" ","v"," ">>, label |-> None, url |-> None,
           icon |-> i[1], icon_url |-> i[2]] : i \in IconArgs}

Init ==
    /\ data_file = NoFile
    /\ call = NoCall
    /\ out = NoOut
    /\ pc = <<>> /\ req = <<>> /\ loc = <<>> /\ hist = <<>>

\* the request is answered with the handler's result r
Served(op, data, r) ==
    /\ Len(r.file.tiles) <= MaxTiles
    /\ data_file' = r.file
    /\ call' = [op |-> op, data |-> data]
    /\ out' = [before |-> data_file, success |-> r.success, status |-> r.status,
               log |-> r.log, wrote |-> r.wrote]
    /\ UNCHANGED <<pc, req, loc, hist>>

Add ==
    /\ call = NoCall
    /\ \E data \in AddData, env \in HandlerEnvs, now \in Times :
          Served("add", data, add(data, data_file, env, now))

Remove ==
    /\ call = NoCall
    /\ \E data \in RemoveData : Served("remove", data, remove(data, data_file))

Edit ==
    /\ call = NoCall
    /\ \E data \in EditData, env \in HandlerEnvs, now \in Times :
          Served("edit", data, edit(data, data_file, env, now))

\* the response is sent; the server waits for the next request
Respond ==
    /\ call # NoCall
    /\ call' = NoCall
    /\ out' = NoOut
    /\ UNCHANGED <<data_file, pc, req, loc, hist>>

Next == Add \/ Remove \/ Edit \/ Respond

Spec == Init /\ [][Next]_vars

\* the stored tile list, now and before the last request
Stored == load_tiles(data_file)

Before == load_tiles(out.before)

\* a request field after trimming, a missing field being blank
Trimmed(v) == strip(OrElse(v, <<>>))

\* the icon value a request supplies: icon, or else icon_url
Supplied(data) == OrElse(data.icon, OrElse(data.icon_url, <<>>))

\* C5: /add with a label or url that is missing or blank after trimming is
\* rejected with status 400 and changes nothing: tiles.json is as before, no
\* fetch is made and no icon file is written
C5_BlankAddRejected ==
    (call.op = "add"
        /\ (Trimmed(call.data.label) = <<>> \/ Trimmed(call.data.url) = <<>>))
    => (/\ ~out.success
        /\ out.status = 400
        /\ data_file = out.before
        /\ out.log = <<>>
        /\ out.wrote = <<>>)

\* C5's case: a tile is stored, and an /add with a label and a remote icon
\* URL but a whitespace-only url has just been answered
C5_Witness ==
    /\ call.op = "add"
    /\ Before # <<>>
    /\ Trimmed(call.data.label) # <<>>
    /\ call.data.url = <<" ">>
    /\ out.status = 400

\* C6 as stated: /add with label, url and a supplied icon that starts with
\* /static/icons/ makes no fetch and stores the previous list plus one tile at
\* the end: the trimmed label and url, and the supplied icon verbatim
C6_LocalIconVerbatim ==
    (call.op = "add"
        /\ Trimmed(call.data.label) # <<>> /\ Trimmed(call.data.url) # <<>>
        /\ startswith(Supplied(call.data), ICON_PREFIX))
    => (/\ out.log = <<>>
        /\ Stored = Before \o <<[label |-> Trimmed(call.data.label),
                                 url |-> Trimmed(call.data.url),
                                 icon |-> Supplied(call.data)]>>)

\* C6 amended: ... and the supplied icon with the whitespace around it trimmed
C6_LocalIconTrimmed ==
    (call.op = "add"
        /\ Trimmed(call.data.label) # <<>> /\ Trimmed(call.data.url) # <<>>
        /\ startswith(Supplied(call.data), ICON_PREFIX))
    => (/\ out.success
        /\ out.log = <<>>
        /\ Stored = Before \o <<[label |-> Trimmed(call.data.label),
                                 url |-> Trimmed(call.data.url),
                                 icon |-> strip(Supplied(call.data))]>>)

\* C6's case: a tile is stored and an /add with a local icon path that ends
\* in a space has appended a second tile
C6_Witness ==
    /\ call.op = "add"
    /\ Len(Before) = 1
    /\ Len(Stored) = 2
    /\ startswith(Supplied(call.data), ICON_PREFIX)
    /\ Supplied(call.data) # strip(Supplied(call.data))
    /\ Stored[2].icon = LocalIcon

\* C7: /edit keeps the length and the order of the list and leaves every
\* tile unchanged except the first whose url is the trimmed original_url;
\* with no such tile the list is unchanged; the response reports success
C7_EditFirstMatchOnly ==
    call.op = "edit" =>
        /\ out.success
        /\ Len(Stored) = Len(Before)
        /\ \A i \in DOMAIN Before :
              (\/ Before[i].url # Trimmed(call.data.original_url)
               \/ \E j \in 1..(i - 1) :
                     Before[j].url = Trimmed(call.data.original_url))
              => Stored[i] = Before[i]
        /\ (\A i \in DOMAIN Before :
               Before[i].url # Trimmed(call.data.original_url))
              => Stored = Before

\* C7's case: two tiles had the url edited; the first changed, the second did not
C7_Witness ==
    /\ call.op = "edit"
    /\ Len(Before) = 2
    /\ Before[1].url = Trimmed(call.data.original_url)
    /\ Before[2].url = Trimmed(call.data.original_url)
    /\ Stored[1] # Before[1]
    /\ Stored[2] = Before[2]

\* the tile /edit matched, 0 if none
Matched == FirstMatch(Before, Trimmed(call.data.original_url))

\* C8: /edit keeps the tile's label (url) when the supplied one is absent,
\* empty or blank after trimming; so no stored tile ever has a blank label or url
C8_BlankKeepsField ==
    /\ (call.op = "edit" /\ Matched # 0) =>
          /\ Trimmed(call.data.label) = <<>>
                => Stored[Matched].label = Before[Matched].label
          /\ Trimmed(call.data.url) = <<>>
                => Stored[Matched].url = Before[Matched].url
    /\ \A i \in DOMAIN Stored : Stored[i].label # <<>> /\ Stored[i].url # <<>>

\* C9 as stated: /remove with url u stores the previous list without the
\* tiles whose url equals u, the others in their order, and reports success
C9_RemoveAllEqual ==
    call.op = "remove" =>
        /\ out.success
        /\ Stored = SelectSeq(Before,
                        LAMBDA t : t.url # OrElse(call.data.url, <<>>))

\* C9 amended: ... without the tiles whose url equals u trimmed of the
\* whitespace around it (a missing u being the empty string) ...
C9_RemoveAllEqualTrimmed ==
    call.op = "remove" =>
        /\ out.success
        /\ Len(Stored) = Cardinality({i \in DOMAIN Before :
                            Before[i].url # Trimmed(call.data.url)})
        /\ \A i \in DOMAIN Stored : Stored[i].url # Trimmed(call.data.url)
        /\ Stored = SelectSeq(Before, LAMBDA t : t.url # Trimmed(call.data.url))

\* C9's case: both tiles had the url removed and none is left
C9_Witness ==
    /\ call.op = "remove"
    /\ Len(Before) = 2
    /\ Before[1].url = Trimmed(call.data.url)
    /\ Before[2].url = Trimmed(call.data.url)
    /\ Before[1] # Before[2]
    /\ Stored = <<>>
    /\ out.success

----------------------------------------------------------------------------
(* SpecRace: two workers serve requests concurrently.  A handler reads the *)
(* file once (load_tiles) and later writes it once (save_tiles); nothing   *)
(* orders one worker's read and write against the other's.                 *)

MaxRequests == 3

Workers == {"w1", "w2"}

RaceRequests ==
    {[op |-> "add", data |-> [label |-> <<"a">>, url |-> <<"u">>,
                              icon |-> LocalIcon, icon_url |-> None]],
     [op |-> "add", data |-> [label |-> <<" ","b"," ">>, url |-> <<" ","v"," ">>,
                              icon |-> None, icon_url |-> None]],
     [op |-> "add", data |-> [label |-> <<" ">>, url |-> <<"u">>,
                              icon |-> None, icon_url |-> None]],
     [op |-> "remove", data |-> [url |-> <<" ","v"," ">>]],
     [op |-> "edit", data |-> [original_url |-> <<"u">>, label |-> <<"b">>, url |-> None,
                               icon |-> None, icon_url |-> None]]}

InitRace ==
    /\ data_file = NoFile
    /\ call = NoCall
    /\ out = NoOut
    /\ pc = [w \in Workers |-> "idle"]
    /\ req = [w \in Workers |-> NoCall]
    /\ loc = [w \in Workers |-> NoFile]
    /\ hist = [overlap |-> FALSE, acked |-> {}, started |-> 0, succeeded |-> 0,
               removes |-> 0, edits |-> 0]

\* the handler of request r run on the file content f
Handle(r, f, env, now) ==
    IF r.op = "add" THEN add(r.data, f, env, now)
    ELSE IF r.op = "remove" THEN remove(r.data, f)
    ELSE edit(r.data, f, env, now)

\* worker w takes a request and runs its handler up to and including
\* tiles = load_tiles()
Load(w) ==
    /\ pc[w] = "idle"
    /\ hist.started < MaxRequests
    /\ \E r \in RaceRequests : req' = [req EXCEPT ![w] = r]
    /\ pc' = [pc EXCEPT ![w] = "loaded"]
    /\ loc' = [loc EXCEPT ![w] = data_file]
    /\ hist' = [hist EXCEPT !.started = @ + 1,
                            !.overlap = @ \/ \E v \in Workers : pc[v] = "loaded"]
    /\ UNCHANGED <<data_file, call, out>>

\* the tiles whose add was acknowledged, as the request r leaves them:
\* an add joins its tile, a remove drops the tiles of its url, an edit
\* replaces the tile it changed
Acked(acked, r, before, after) ==
    IF r.op = "add"
    THEN acked \cup {after[Len(after)]}
    ELSE IF r.op = "remove"
    THEN {t \in acked : t.url # Trimmed(r.data.url)}
    ELSE LET i == FirstMatch(before, Trimmed(r.data.original_url))
         IN  IF i = 0 THEN acked
             ELSE IF before[i] \in acked
             THEN (acked \ {before[i]}) \cup {after[i]}
             ELSE acked

\* worker w ends its request with the handler's result r
Finish(w, r) ==
    /\ data_file' = IF r.success THEN r.file ELSE data_file
    /\ call' = req[w]
    /\ out' = [before |-> loc[w], success |-> r.success,
               status |-> r.status, log |-> r.log, wrote |-> r.wrote]
    /\ hist' = [hist EXCEPT
           !.succeeded = IF r.success THEN @ + 1 ELSE @,
           !.removes = IF req[w].op = "remove" THEN @ + 1 ELSE @,
           !.edits = IF req[w].op = "edit" THEN @ + 1 ELSE @,
           !.acked = IF r.success
                     THEN Acked(@, req[w], load_tiles(loc[w]), load_tiles(r.file))
                     ELSE @]
    /\ pc' = [pc EXCEPT ![w] = "idle"]
    /\ req' = [req EXCEPT ![w] = NoCall]
    /\ loc' = [loc EXCEPT ![w] = NoFile]

\* worker w runs the rest of its handler on the list it loaded: the
\* mutation, save_tiles(tiles) and the response; a rejected /add writes nothing
Save(w) ==
    /\ pc[w] = "loaded"
    /\ \E env \in {AllFail}, now \in Times :
          Finish(w, Handle(req[w], loc[w], env, now))

NextRace == \E w \in Workers : Load(w) \/ Save(w)

SpecRace == InitRace /\ [][NextRace]_vars

\* C10: while no two requests have overlapped, the tile of every add that
\* reported success is stored (as last edited) until a remove with its url
C10_NoOverlapKeepsAdds ==
    ~hist.overlap =>
        \A t \in hist.acked : \E i \in DOMAIN Stored : Stored[i] = t

\* C10's case: two requests overlapped, all requests reported success, none
\* was a remove or an edit, and the tile of one add is not stored
C10_LostUpdate ==
    /\ hist.overlap
    /\ \A w \in Workers : pc[w] = "idle"
    /\ hist.started = 2
    /\ hist.succeeded = 2
    /\ hist.removes = 0 /\ hist.edits = 0
    /\ \E t \in hist.acked : \A i \in DOMAIN Stored : Stored[i] # t

====
